---- MODULE Spec2Model ----
(***************************************************************************)
(* A model of the registration backend in server.js: the validation of a  *)
(* registration payload, the admin session gate, the registration and     *)
(* admin tables, and the Express handlers with the SQLite statements they *)
(* issue.  A request is handled in two kinds of steps, as in the code: the *)
(* synchronous part of its handler (session lookup, gate, validation, the *)
(* statement it issues) and the callback that runs when its statement has *)
(* executed.                                                               *)
(*                                                                         *)
(* Strings are sequences of one-character strings, so that length, the    *)
(* phone pattern and Number() are computed on the characters.             *)
(***************************************************************************)
EXTENDS Integers, Sequences, FiniteSets, TLC

VARIABLES
    vin,            \* validation harness: the payload handed to validateRegistration
    vout,           \* validation harness: what validateRegistration returned
    regCols,        \* columns of table registrations (<<>>: no such table)
    adminCols,      \* columns of table admins (<<>>: no such table)
    registrations,  \* rows of table registrations, by id
    regSeq,         \* sqlite_sequence of registrations (AUTOINCREMENT)
    admins,         \* rows of table admins
    adminSeq,       \* sqlite_sequence of admins
    sessions,       \* the session store (MemoryStore): sid -> session
    nextSid,        \* how many session ids have been handed out
    now,            \* the clock, in hours
    boot,           \* the running process: its configuration and bootstrap progress
    inflight,       \* requests whose handler has issued work and awaits a callback
    last,           \* the step taken last: the request handled and its response
    hist            \* history: what was created, deleted, logged in, initialised

vars == <<vin, vout, regCols, adminCols, registrations, regSeq, admins, adminSeq,
          sessions, nextSid, now, boot, inflight, last, hist>>

sysVars == <<regCols, adminCols, registrations, regSeq, admins, adminSeq,
             sessions, nextSid, now, boot, inflight, last, hist>>

-----------------------------------------------------------------------------
(* JavaScript values of a JSON body: undefined (an absent field), strings   *)
(* and numbers.  A number is the rational n/d in lowest terms; d = 0 is NaN. *)

Undef == [t |-> "undefined", s |-> <<>>, n |-> 0, d |-> 1]

JStr(chars) == [t |-> "string", s |-> chars, n |-> 0, d |-> 1]

JNum(num, den) == [t |-> "number", s |-> <<>>, n |-> num, d |-> den]

NaN == JNum(0, 0)

\* !v
Falsy(v) ==
    CASE v.t = "undefined" -> TRUE
      [] v.t = "string"    -> v.s = <<>>
      [] v.t = "number"    -> v.d = 0 \/ v.n = 0

\* v.length < k: the length of a number is undefined, and undefined < k is false
LengthBelow(v, k) == v.t = "string" /\ Len(v.s) < k

Digits == {"0", "1", "2", "3", "4", "5", "6", "7", "8", "9"}

DigitVal(c) ==
    CASE c = "0" -> 0 [] c = "1" -> 1 [] c = "2" -> 2 [] c = "3" -> 3
      [] c = "4" -> 4 [] c = "5" -> 5 [] c = "6" -> 6 [] c = "7" -> 7
      [] c = "8" -> 8 [] c = "9" -> 9

AllDigits(chars) == \A i \in 1..Len(chars) : chars[i] \in Digits

RECURSIVE DigitsVal(_)
DigitsVal(chars) ==
    IF chars = <<>> THEN 0
    ELSE 10 * DigitsVal(SubSeq(chars, 1, Len(chars) - 1)) + DigitVal(chars[Len(chars)])

RECURSIVE Pow10(_)
Pow10(k) == IF k = 0 THEN 1 ELSE 10 * Pow10(k - 1)

RECURSIVE Gcd(_, _)
Gcd(a, b) == IF b = 0 THEN a ELSE Gcd(b, a % b)

Abs(a) == IF a < 0 THEN -a ELSE a

Rational(num, den) ==
    LET g == Gcd(Abs(num), den) IN JNum(num \div g, den \div g)

RECURSIVE TrimLeft(_)
TrimLeft(chars) ==
    IF chars # <<>> /\ Head(chars) = " " THEN TrimLeft(Tail(chars)) ELSE chars

RECURSIVE TrimRight(_)
TrimRight(chars) ==
    IF chars # <<>> /\ chars[Len(chars)] = " "
    THEN TrimRight(SubSeq(chars, 1, Len(chars) - 1)) ELSE chars

\* Number(string), for strings over digits, sign, point, blank and letters
\* other than those of Infinity, exponents and radix prefixes: blank is 0,
\* a signed decimal literal is its value, anything else is NaN.
StringToNumber(chars) ==
    LET t    == TrimRight(TrimLeft(chars))
        sgn  == IF t # <<>> /\ Head(t) = "-" THEN -1 ELSE 1
        body == IF t # <<>> /\ Head(t) \in {"+", "-"} THEN Tail(t) ELSE t
        dots == {i \in 1..Len(body) : body[i] = "."}
        dot  == IF dots = {} THEN Len(body) + 1 ELSE CHOOSE i \in dots : TRUE
        ip   == SubSeq(body, 1, dot - 1)
        fp   == SubSeq(body, dot + 1, Len(body))
    IN  IF t = <<>> THEN JNum(0, 1)
        ELSE IF Cardinality(dots) <= 1 /\ AllDigits(ip) /\ AllDigits(fp)
                /\ Len(ip) + Len(fp) > 0
             THEN Rational(sgn * (DigitsVal(ip) * Pow10(Len(fp)) + DigitsVal(fp)),
                           Pow10(Len(fp)))
             ELSE NaN

\* Number(v)
ToNumber(v) ==
    CASE v.t = "undefined" -> NaN
      [] v.t = "number"    -> v
      [] v.t = "string"    -> StringToNumber(v.s)

\* Number.isInteger(x)
IsInteger(x) == x.t = "number" /\ x.d = 1

\* x < k and x > k for an integer k; every comparison with NaN is false
NumLess(x, k) == x.d > 0 /\ x.n < k * x.d

NumGreater(x, k) == x.d > 0 /\ x.n > k * x.d

\* /^\+\d{1,3}-\d{3}-\d{3}-\d{4}$/.test(chars): the pattern is matched from the
\* left, the country code taking as many digits as let the rest match
DigitRun(chars, from, count) ==
    /\ from + count - 1 <= Len(chars)
    /\ \A i \in from..(from + count - 1) : chars[i] \in Digits

LitAt(chars, at, c) == at <= Len(chars) /\ chars[at] = c

phoneRegexRest(chars, at) ==
    /\ LitAt(chars, at, "-")      /\ DigitRun(chars, at + 1, 3)
    /\ LitAt(chars, at + 4, "-")  /\ DigitRun(chars, at + 5, 3)
    /\ LitAt(chars, at + 8, "-")  /\ DigitRun(chars, at + 9, 4)
    /\ Len(chars) = at + 12

phoneRegexTest(chars) ==
    /\ LitAt(chars, 1, "+")
    /\ \E k \in 1..3 : DigitRun(chars, 2, k) /\ phoneRegexRest(chars, 2 + k)

\* v || ""
OrEmpty(v) == IF Falsy(v) THEN JStr(<<>>) ELSE v

\* phoneRegex.test(v): the text of a number holds no "+" and cannot match
RegexTest(v) == v.t = "string" /\ phoneRegexTest(v.s)

\* String(v).includes(c), for strings; the text of a number holds no "@"
Includes(v, c) == v.t = "string" /\ \E i \in 1..Len(v.s) : v.s[i] = c

-----------------------------------------------------------------------------
(* validateRegistration *)

\* a request without a parsed body
NoBody == [absent |-> TRUE]

Null == "null"

MsgMissing     == "Missing registration data."
MsgFullName    == "Full name is required."
MsgSex         == "Sex is required."
MsgPhone       == "Phone must match +234-801-234-5678 format."
MsgEmail       == "Email is required."
MsgDestination == "Destination is required."
MsgCity        == "City is required."
MsgPersons     == "Number of persons must be between 1 and 20."
MsgTravelTime  == "Travel time is required."

\* a faulty persons check that turns away the upper boundary (>= for >):
\* property C5 tells it from the code's
personsRejectedAtTwenty(persons) ==
    LET personsNumber == ToNumber(persons)
    IN  \/ ~IsInteger(personsNumber)
        \/ NumLess(personsNumber, 1)
        \/ NumGreater(personsNumber, 19)

personsRejected(persons) ==
    LET personsNumber == ToNumber(persons)
    IN  \/ ~IsInteger(personsNumber)
        \/ NumLess(personsNumber, 1)
        \/ NumGreater(personsNumber, 20)

\* a faulty validation that looks at the phone before the name and the sex:
\* property C4 tells it from the code's
validateRegistrationPhoneFirst(payload) ==
    IF payload = NoBody THEN MsgMissing
    ELSE IF ~RegexTest(OrEmpty(payload.phone)) THEN MsgPhone
    ELSE IF Falsy(payload.fullName) \/ LengthBelow(payload.fullName, 2) THEN MsgFullName
    ELSE IF Falsy(payload.sex) THEN MsgSex
    ELSE IF Falsy(payload.email) \/ ~Includes(payload.email, "@") THEN MsgEmail
    ELSE IF Falsy(payload.destination) THEN MsgDestination
    ELSE IF Falsy(payload.city) \/ LengthBelow(payload.city, 2) THEN MsgCity
    ELSE IF personsRejected(payload.persons) THEN MsgPersons
    ELSE IF Falsy(payload.travelTime) THEN MsgTravelTime
    ELSE Null

validateRegistration(payload) ==
    IF payload = NoBody THEN MsgMissing
    ELSE IF Falsy(payload.fullName) \/ LengthBelow(payload.fullName, 2) THEN MsgFullName
    ELSE IF Falsy(payload.sex) THEN MsgSex
    ELSE IF ~RegexTest(OrEmpty(payload.phone)) THEN MsgPhone
    ELSE IF Falsy(payload.email) \/ ~Includes(payload.email, "@") THEN MsgEmail
    ELSE IF Falsy(payload.destination) THEN MsgDestination
    ELSE IF Falsy(payload.city) \/ LengthBelow(payload.city, 2) THEN MsgCity
    ELSE IF personsRejected(payload.persons) THEN MsgPersons
    ELSE IF Falsy(payload.travelTime) THEN MsgTravelTime
    ELSE Null

-----------------------------------------------------------------------------
(* Bounds of the model *)

MaxRegs == 2        \* registrations ever inserted (sqlite_sequence stays below it)

MaxSid == 2         \* session ids ever handed out

MaxClock == 2       \* the clock stops here

MaxInflight == 2    \* requests awaiting a callback at one time

MaxStarts == 2      \* process starts on the same database file

\* cookie.maxAge, in hours
MaxAge == 2

-----------------------------------------------------------------------------
(* Inputs *)

S_phone1 == <<"+","2","3","4","-","8","0","1","-","2","3","4","-","5","6","7","8">>
S_phone2 == <<"+","1","-","8","0","1","-","2","3","4","-","5","6","7","8">>
S_phoneNoPlus == <<"2","3","4","-","8","0","1","-","2","3","4","-","5","6","7","8">>
S_phoneShort == <<"+","2","3","4","-","8","0","1","-","2","3","4","-","5","6","7">>
S_phoneLocal == <<"0","8","0","1","2","3","4","5","6","7">>
S_phoneLongCc == <<"+","2","3","4","5","-","8","0","1","-","2","3","4","-","5","6","7","8">>
S_email == <<"a","@","x",".","i","o">>
S_travel == <<"2","0","2","4","-","0","5","-","0","1","T","1","0",":","0","0">>

\* spec section 8, scenario 1: persons a JSON number, no message
PayloadA ==
    [fullName |-> JStr(<<"A","d","a">>), sex |-> JStr(<<"f","e","m","a","l","e">>),
     phone |-> JStr(S_phone1), email |-> JStr(S_email),
     destination |-> JStr(<<"K","e","n","y","a">>),
     city |-> JStr(<<"N","a","i","r","o","b","i">>),
     persons |-> JNum(2, 1), travelTime |-> JStr(S_travel), message |-> Undef]

\* a body as script.js and admin.js send it: every field a string
PayloadB ==
    [fullName |-> JStr(<<"B","o">>), sex |-> JStr(<<"m","a","l","e">>),
     phone |-> JStr(S_phone2), email |-> JStr(<<"b","@","y">>),
     destination |-> JStr(<<"P","e","r","u">>),
     city |-> JStr(<<"L","i","m","a">>),
     persons |-> JStr(<<"2","0">>), travelTime |-> JStr(<<"2","0","2","5">>),
     message |-> JStr(<<"h","i">>)]

\* spec section 8, scenario 2
PayloadBadPhone == [PayloadA EXCEPT !.phone = JStr(S_phoneLocal)]

PayloadBadPersons == [PayloadB EXCEPT !.persons = JStr(<<"2","1">>)]

\* a valid body that also names an id and a createdAt of the client's choosing
PayloadForged ==
    [fullName |-> JStr(<<"M","a","l">>), sex |-> JStr(<<"m","a","l","e">>),
     phone |-> JStr(S_phone2), email |-> JStr(<<"m","@","z">>),
     destination |-> JStr(<<"M","a","l","i">>),
     city |-> JStr(<<"G","a","o">>),
     persons |-> JNum(1, 1), travelTime |-> JStr(<<"2","0","2","6">>),
     message |-> JStr(<<>>),
     id |-> JNum(7, 1), createdAt |-> JStr(<<"T","9","9">>)]

\* a body that passes validation with a number for a name: !5 is false, and
\* (5).length is undefined, which is not < 2
PayloadNumberName == [PayloadA EXCEPT !.fullName = JNum(5, 1)]

\* a body whose sex is none of the options the form offers
PayloadOtherSex == [PayloadA EXCEPT !.sex = JStr(<<"x">>)]

Bodies == {PayloadA, PayloadB, PayloadBadPhone, PayloadBadPersons}

\* the :id of a path, as text
PathIds == {<<"1">>, <<"2">>, <<"3">>, <<"a","b","c">>}

AdminNames == {"admin", "root"}

AdminPassword == "admin123"

LoginNames == {"", "admin", "ghost"}

LoginPasswords == {"", "admin123", "wrong"}

-----------------------------------------------------------------------------
(* The database *)

\* the columns CREATE TABLE registrations names, in order
RegistrationColumns ==
    <<"id", "full_name", "sex", "phone", "email", "destination", "city",
      "persons", "travel_time", "message", "created_at">>

\* the table of a database file written before email and city were added
LegacyColumns ==
    <<"id", "full_name", "sex", "phone", "destination",
      "persons", "travel_time", "message", "created_at">>

AdminColumns == <<"id", "username", "password_hash">>

Range(f) == {f[i] : i \in DOMAIN f}

NoRow == [absent |-> TRUE]

DigitChar(k) ==
    CASE k = 0 -> "0" [] k = 1 -> "1" [] k = 2 -> "2" [] k = 3 -> "3"
      [] k = 4 -> "4" [] k = 5 -> "5" [] k = 6 -> "6" [] k = 7 -> "7"
      [] k = 8 -> "8" [] k = 9 -> "9"

\* new Date().toISOString(), of which the model keeps the hour: "Thh"
ToISOString(t) == <<"T", DigitChar((t \div 10) % 10), DigitChar(t % 10)>>

LegacyRow ==
    [id |-> JNum(1, 1), full_name |-> JStr(<<"E","v","e">>),
     sex |-> JStr(<<"f","e","m","a","l","e">>), phone |-> JStr(S_phone1),
     destination |-> JStr(<<"P","e","r","u">>), persons |-> JNum(3, 1),
     travel_time |-> JStr(<<"2","0","2","3">>), message |-> JStr(<<>>),
     created_at |-> JStr(ToISOString(0))]

\* CREATE TABLE IF NOT EXISTS: the columns of the table afterwards
createTableIfNotExists(cols, wanted) == IF cols = <<>> THEN wanted ELSE cols

\* ALTER TABLE t ADD COLUMN c: fails (duplicate column name) when c is there
addColumnFails(cols, c) == cols = <<>> \/ c \in Range(cols)

\* a faulty ADD COLUMN that does not fail on a column that is there and adds
\* it again: property C9 tells it from the database's
addColumnAgain(cols, c) == IF cols = <<>> THEN cols ELSE Append(cols, c)

addColumn(cols, c) == IF addColumnFails(cols, c) THEN cols ELSE Append(cols, c)

\* the rows after ALTER TABLE t ADD COLUMN c ... DEFAULT dflt
addColumnRows(rows, cols, c, dflt) ==
    IF addColumnFails(cols, c) THEN rows
    ELSE [i \in DOMAIN rows |->
            [x \in DOMAIN rows[i] \cup {c} |-> IF x = c THEN dflt ELSE rows[i][x]]]

\* the rowid of a table declared without AUTOINCREMENT, one more than the
\* largest rowid the table holds now: property C12 tells it from the code's
nextRowIdOfRows(seq, ids) ==
    (IF ids = {} THEN 0 ELSE CHOOSE i \in ids : \A j \in ids : j <= i) + 1

\* AUTOINCREMENT: one more than the largest rowid the table ever held
nextRowId(seq, ids) ==
    LET m == IF ids = {} THEN 0 ELSE CHOOSE i \in ids : \A j \in ids : j <= i
    IN  (IF seq > m THEN seq ELSE m) + 1

\* bcrypt.hash(password, 10) and bcrypt.compare(password, hash)
bcryptHash(password) == <<"$2a$10$", password>>

bcryptCompare(password, hash) == hash[2] = password

-----------------------------------------------------------------------------
(* Sessions (express-session with its MemoryStore, as configured)           *)

NoSession == [adminId |-> 0, username |-> ""]

\* store.get: a session past its expiry is dropped and reads as absent
sessionLive(store, sid, t) == sid \in DOMAIN store /\ store[sid].expires > t

storeGet(store, sid, t) ==
    IF sessionLive(store, sid, t)
    THEN [adminId |-> store[sid].adminId, username |-> store[sid].username]
    ELSE NoSession

Without(store, sid) == [x \in DOMAIN store \ {sid} |-> store[x]]

storeAfterGet(store, sid, t) ==
    IF sid \in DOMAIN store /\ ~sessionLive(store, sid, t) THEN Without(store, sid)
    ELSE store

\* req.sessionID once the session is loaded: the cookie's id when the store
\* holds it, a freshly generated one (0 here, until it is saved) otherwise
loadedSid(store, cookie, t) == IF sessionLive(store, cookie, t) THEN cookie ELSE 0

\* store.touch at the end of a response whose session was not modified:
\* the stored session's expiry becomes t + maxAge; nothing is re-created
storeTouch(store, sid, t) ==
    IF sid \in DOMAIN store
    THEN IF store[sid].expires > t
         THEN [store EXCEPT ![sid].expires = t + MaxAge]
         ELSE Without(store, sid)
    ELSE store

\* store.set at the end of a response whose session was modified
storeSet(store, sid, sess, t) ==
    [x \in DOMAIN store \cup {sid} |->
        IF x = sid
        THEN [adminId |-> sess.adminId, username |-> sess.username,
              expires |-> t + MaxAge]
        ELSE store[x]]

\* a faulty gate that lets every request through: property C1 tells it from
\* the code's
isAdminOpen(sess) == TRUE

\* isAdmin, and the same test in GET /api/admin/me
isAdmin(sess) == sess.adminId # 0

-----------------------------------------------------------------------------
(* Requests and responses *)

NoData == [id |-> 0, username |-> "", row |-> NoRow, rows |-> <<>>]

Request(route, cookie, id, body, username, password) ==
    [route |-> route, cookie |-> cookie, sid |-> loadedSid(sessions, cookie, now),
     sess |-> storeGet(sessions, cookie, now),
     id |-> id, body |-> body, username |-> username, password |-> password,
     stage |-> "handler", row |-> NoRow, createdAt |-> <<>>]

NoRequest == [route |-> "none"]

Event(kind, req, status, message, data, issued, fault) ==
    [kind |-> kind, req |-> req, status |-> status, message |-> message,
     data |-> data, issued |-> issued, fault |-> fault]

\* what a client may send: no cookie (0) or any session id handed out so far
Cookies == 0..nextSid

Serialized == {"create_registrations", "add_city", "add_email", "create_admins", "lookup"}

\* the statements of requests wait behind those db.serialize queued at start
DbReady == boot.pc \notin Serialized

RoomInflight == Cardinality(inflight) < MaxInflight

dbVars == <<regCols, adminCols, registrations, regSeq, admins, adminSeq>>

harness == <<vin, vout>>

FreshHist == [created |-> <<>>, deleted |-> {}, auth |-> <<>>, born |-> <<>>]

Init ==
    /\ vin = NoBody
    /\ vout = "idle"
    /\ \/ /\ regCols = <<>>
          /\ registrations = <<>>
          /\ regSeq = 0
       \/ /\ regCols = LegacyColumns
          /\ registrations = (1 :> LegacyRow)
          /\ regSeq = 1
    /\ adminCols = <<>>
    /\ admins = {}
    /\ adminSeq = 0
    /\ sessions = <<>>
    /\ nextSid = 0
    /\ now = 0
    /\ boot \in [pc : {"create_registrations"}, adminUsername : AdminNames,
                 starts : {1}, log : {{}}]
    /\ inflight = {}
    /\ last = Event("init", NoRequest, 0, "", NoData, FALSE, FALSE)
    /\ hist = FreshHist

-----------------------------------------------------------------------------
(* Start of the process: initializeDatabase and ensureDefaultAdmin.  The     *)
(* four schema statements and the admin lookup are queued by db.serialize    *)
(* and run one after the other, ahead of any statement a request issues.     *)

BootEvent(fault) == Event("boot", NoRequest, 0, "", NoData, FALSE, fault)

BootTo(pc) == boot' = [boot EXCEPT !.pc = pc]

BootFail(what) == boot' = [boot EXCEPT !.pc = "done", !.log = @ \cup {what}]

CreateRegistrationsTable ==
    /\ boot.pc = "create_registrations"
    /\ regCols' = createTableIfNotExists(regCols, RegistrationColumns)
    /\ BootTo("add_city")
    /\ last' = BootEvent(FALSE)
    /\ UNCHANGED <<harness, adminCols, registrations, regSeq, admins, adminSeq,
                   sessions, nextSid, now, inflight, hist>>

\* the callback () => undefined drops the statement's error
AddColumn(pc, column, next) ==
    /\ boot.pc = pc
    /\ regCols' = addColumn(regCols, column)
    /\ registrations' = addColumnRows(registrations, regCols, column, JStr(<<>>))
    /\ BootTo(next)
    /\ last' = BootEvent(FALSE)
    /\ UNCHANGED <<harness, adminCols, regSeq, admins, adminSeq,
                   sessions, nextSid, now, inflight, hist>>

AddCityColumn == AddColumn("add_city", "city", "add_email")

AddEmailColumn == AddColumn("add_email", "email", "create_admins")

CreateAdminsTable ==
    /\ boot.pc = "create_admins"
    /\ adminCols' = createTableIfNotExists(adminCols, AdminColumns)
    /\ BootTo("lookup")
    /\ last' = BootEvent(FALSE)
    /\ UNCHANGED <<harness, regCols, registrations, regSeq, admins, adminSeq,
                   sessions, nextSid, now, inflight, hist>>

adminByUsername(username) == {a \in admins : a.username = username}

\* ensureDefaultAdmin: the callback of SELECT id FROM admins WHERE username = ?
AdminLookup ==
    /\ boot.pc = "lookup"
    /\ \E fault \in BOOLEAN :
        /\ IF fault THEN BootFail("Admin lookup failed")
           ELSE IF adminByUsername(boot.adminUsername) # {} THEN BootTo("done")
           ELSE BootTo("hash")
        /\ last' = BootEvent(fault)
    /\ UNCHANGED <<harness, dbVars, sessions, nextSid, now, inflight, hist>>

\* ensureDefaultAdmin: the callback of bcrypt.hash, which issues the INSERT
AdminHash ==
    /\ boot.pc = "hash"
    /\ \E fault \in BOOLEAN :
        /\ IF fault THEN BootFail("Admin hash failed") ELSE BootTo("insert")
        /\ last' = BootEvent(fault)
    /\ UNCHANGED <<harness, dbVars, sessions, nextSid, now, inflight, hist>>

\* INSERT INTO admins (username, password_hash): username is UNIQUE
insertAdmin(rows, seq, username, hash) ==
    rows \cup {[id |-> nextRowId(seq, {a.id : a \in rows}),
                username |-> username, password_hash |-> hash]}

AdminInsert ==
    /\ boot.pc = "insert"
    /\ \E fault \in BOOLEAN :
        /\ IF fault \/ adminByUsername(boot.adminUsername) # {}
           THEN /\ BootFail("Admin insert failed")
                /\ UNCHANGED <<admins, adminSeq>>
           ELSE /\ admins' = insertAdmin(admins, adminSeq, boot.adminUsername,
                                         bcryptHash(AdminPassword))
                /\ adminSeq' = nextRowId(adminSeq, {a.id : a \in admins})
                /\ BootTo("done")
        /\ last' = BootEvent(fault)
    /\ UNCHANGED <<harness, regCols, adminCols, registrations, regSeq,
                   sessions, nextSid, now, inflight, hist>>

\* The process ends and is started again on the same database file: the
\* session store and the requests in flight are gone with it.
Restart ==
    /\ boot.starts < MaxStarts
    /\ \E username \in AdminNames :
        boot' = [pc |-> "create_registrations", adminUsername |-> username,
                 starts |-> boot.starts + 1, log |-> {}]
    /\ sessions' = <<>>
    /\ inflight' = {}
    /\ hist' = [hist EXCEPT !.auth = <<>>]
    /\ last' = Event("restart", NoRequest, 0, "", NoData, FALSE, FALSE)
    /\ UNCHANGED <<harness, dbVars, nextSid, now>>

Tick ==
    /\ now < MaxClock
    /\ now' = now + 1
    /\ last' = Event("tick", NoRequest, 0, "", NoData, FALSE, FALSE)
    /\ UNCHANGED <<harness, dbVars, sessions, nextSid, boot, inflight, hist>>

-----------------------------------------------------------------------------
(* Handlers.  Handle* is the synchronous part of a route: the session is    *)
(* loaded, then the gate, the id and the body are checked, and the handler  *)
(* either answers or issues a statement.  Every response ends by touching   *)
(* (or saving) the request's session.                                       *)

\* a response sent from the handler itself
Answer(req, status, message, data) ==
    /\ sessions' = storeTouch(storeAfterGet(sessions, req.cookie, now), req.sid, now)
    /\ last' = Event("handle", req, status, message, data, FALSE, FALSE)
    /\ UNCHANGED inflight

\* the handler issued a statement (or a hash comparison) and returned
Issue(req, stage) ==
    /\ RoomInflight
    /\ inflight' = inflight \cup {[req EXCEPT !.stage = stage]}
    /\ sessions' = storeAfterGet(sessions, req.cookie, now)
    /\ last' = Event("handle", req, 0, "", NoData, TRUE, FALSE)

\* a response sent from the callback of request r
Reply(r, status, message, data, fault) ==
    /\ inflight' = inflight \ {r}
    /\ last' = Event("callback", r, status, message, data, FALSE, fault)

ReplyTouch(r, status, message, data, fault) ==
    /\ Reply(r, status, message, data, fault)
    /\ sessions' = storeTouch(sessions, r.sid, now)

InsertsInFlight == Cardinality({r \in inflight : r.stage = "insert"})

\* POST /api/registrations
HandleCreate(cookie, body) ==
    LET req   == [Request("create", cookie, <<>>, body, "", "")
                     EXCEPT !.createdAt = ToISOString(now)]
        error == validateRegistration(body)
    IN  /\ IF error # Null THEN Answer(req, 400, error, NoData)
           ELSE /\ regSeq + InsertsInFlight < MaxRegs
                /\ Issue(req, "insert")
        /\ UNCHANGED <<harness, dbVars, nextSid, now, boot, hist>>

\* the decimal text of a natural number
RECURSIVE NatText(_)
NatText(n) == IF n < 10 THEN <<DigitChar(n)>> ELSE Append(NatText(n \div 10), DigitChar(n % 10))

\* what a column declared TEXT stores: a text as it is, a number bound to it
\* as its text (the numbers of the inputs are natural numbers)
textAffinity(v) ==
    IF v.t = "number" /\ v.d = 1 /\ v.n >= 0 THEN JStr(NatText(v.n)) ELSE v

\* a faulty binding of the statement's parameters, destination and city in
\* each other's place: property C6 tells it from the code's
rowOfSwapped(id, body, createdAt) ==
    [id          |-> JNum(id, 1),
     full_name   |-> body.fullName,
     sex         |-> body.sex,
     phone       |-> body.phone,
     email       |-> body.email,
     destination |-> body.city,
     city        |-> body.destination,
     persons     |-> ToNumber(body.persons),
     travel_time |-> body.travelTime,
     message     |-> OrEmpty(body.message),
     created_at  |-> JStr(createdAt)]

\* the row an INSERT or UPDATE writes from a validated body
rowOf(id, body, createdAt) ==
    [id          |-> JNum(id, 1),
     full_name   |-> textAffinity(body.fullName),
     sex         |-> textAffinity(body.sex),
     phone       |-> textAffinity(body.phone),
     email       |-> textAffinity(body.email),
     destination |-> textAffinity(body.destination),
     city        |-> textAffinity(body.city),
     persons     |-> ToNumber(body.persons),
     travel_time |-> textAffinity(body.travelTime),
     message     |-> textAffinity(OrEmpty(body.message)),
     created_at  |-> JStr(createdAt)]

\* the statements of the handlers name every column of RegistrationColumns
HasColumns == Range(RegistrationColumns) \subseteq Range(regCols)

Put(f, k, v) == [x \in DOMAIN f \cup {k} |-> IF x = k THEN v ELSE f[x]]

Drop(f, k) == [x \in DOMAIN f \ {k} |-> f[x]]

\* insertCallback
ExecInsert(r) ==
    /\ r.stage = "insert"
    /\ DbReady
    /\ \E fault \in BOOLEAN :
        IF fault \/ ~HasColumns
        THEN /\ ReplyTouch(r, 500, "Failed to save registration.", NoData, fault)
             /\ UNCHANGED <<registrations, regSeq, hist>>
        ELSE LET lastID == nextRowId(regSeq, DOMAIN registrations)
             IN  /\ registrations' = Put(registrations, lastID,
                                         rowOf(lastID, r.body, r.createdAt))
                 /\ regSeq' = lastID
                 /\ hist' = [hist EXCEPT !.created = Put(@, lastID, r.body),
                                         !.born = Put(@, lastID, JStr(r.createdAt))]
                 /\ ReplyTouch(r, 201, "Saved", [NoData EXCEPT !.id = lastID], FALSE)
    /\ UNCHANGED <<harness, regCols, adminCols, admins, adminSeq, nextSid, now, boot>>

LoginsWithoutSid ==
    Cardinality({r \in inflight : r.route = "login" /\ r.sid = 0})

\* POST /api/admin/login
HandleLogin(cookie, username, password) ==
    LET req == Request("login", cookie, <<>>, NoBody, username, password)
    IN  /\ IF username = "" \/ password = ""
           THEN Answer(req, 400, "Username and password required.", NoData)
           ELSE /\ req.sid = 0 => nextSid + LoginsWithoutSid < MaxSid
                /\ Issue(req, "lookup")
        /\ UNCHANGED <<harness, dbVars, nextSid, now, boot, hist>>

\* a faulty lookup callback that tells the client the username is unknown:
\* property C10 tells it from the code's
ExecLoginLookupRevealing(r) ==
    /\ r.stage = "lookup"
    /\ DbReady
    /\ \E fault \in BOOLEAN :
        IF fault \/ adminCols = <<>>
        THEN ReplyTouch(r, 500, "Login failed.", NoData, fault)
        ELSE IF adminByUsername(r.username) = {}
        THEN ReplyTouch(r, 404, "Unknown user.", NoData, FALSE)
        ELSE /\ inflight' = (inflight \ {r}) \cup
                    {[r EXCEPT !.stage = "compare",
                               !.row = CHOOSE a \in adminByUsername(r.username) : TRUE]}
             /\ last' = Event("callback", r, 0, "", NoData, TRUE, FALSE)
             /\ UNCHANGED sessions
    /\ UNCHANGED <<harness, dbVars, nextSid, now, boot, hist>>

\* the callback of SELECT id, password_hash FROM admins WHERE username = ?
ExecLoginLookup(r) ==
    /\ r.stage = "lookup"
    /\ DbReady
    /\ \E fault \in BOOLEAN :
        IF fault \/ adminCols = <<>>
        THEN ReplyTouch(r, 500, "Login failed.", NoData, fault)
        ELSE IF adminByUsername(r.username) = {}
        THEN ReplyTouch(r, 401, "Invalid credentials.", NoData, FALSE)
        ELSE /\ inflight' = (inflight \ {r}) \cup
                    {[r EXCEPT !.stage = "compare",
                               !.row = CHOOSE a \in adminByUsername(r.username) : TRUE]}
             /\ last' = Event("callback", r, 0, "", NoData, TRUE, FALSE)
             /\ UNCHANGED sessions
    /\ UNCHANGED <<harness, dbVars, nextSid, now, boot, hist>>

\* a faulty compare callback that gives the session the admin's identity
\* before it looks at the result, and so also when it answers 401: property
\* C24 tells it from the code's
ExecLoginCompareEager(r) ==
    /\ r.stage = "compare"
    /\ \E fault \in BOOLEAN :
        IF fault
        THEN /\ ReplyTouch(r, 500, "Login failed.", NoData, TRUE)
             /\ UNCHANGED <<nextSid, hist>>
        ELSE LET sess  == [adminId |-> r.row.id, username |-> r.username]
                 sid   == IF r.sid = 0 THEN nextSid + 1 ELSE r.sid
                 match == bcryptCompare(r.password, r.row.password_hash)
             IN  /\ sessions' = IF sess # r.sess THEN storeSet(sessions, sid, sess, now)
                                ELSE storeTouch(sessions, sid, now)
                 /\ nextSid' = IF r.sid = 0 THEN nextSid + 1 ELSE nextSid
                 /\ hist' = IF match
                            THEN [hist EXCEPT !.auth =
                                    Put(@, sid, [state |-> "in", username |-> r.username,
                                                 at |-> now])]
                            ELSE hist
                 /\ IF match
                    THEN Reply(r, 200, "Logged in", [NoData EXCEPT !.id = sid], FALSE)
                    ELSE Reply(r, 401, "Invalid credentials.", NoData, FALSE)
    /\ UNCHANGED <<harness, dbVars, now, boot>>

\* the callback of bcrypt.compare: on a match the session gets the admin's
\* identity; the response's end saves the session when that changed it and
\* only touches it otherwise
ExecLoginCompare(r) ==
    /\ r.stage = "compare"
    /\ \E fault \in BOOLEAN :
        IF fault
        THEN /\ ReplyTouch(r, 500, "Login failed.", NoData, TRUE)
             /\ UNCHANGED <<nextSid, hist>>
        ELSE IF ~bcryptCompare(r.password, r.row.password_hash)
        THEN /\ ReplyTouch(r, 401, "Invalid credentials.", NoData, FALSE)
             /\ UNCHANGED <<nextSid, hist>>
        ELSE LET sess == [adminId |-> r.row.id, username |-> r.username]
                 sid  == IF r.sid = 0 THEN nextSid + 1 ELSE r.sid
             IN  /\ sessions' = IF sess # r.sess THEN storeSet(sessions, sid, sess, now)
                                ELSE storeTouch(sessions, sid, now)
                 /\ nextSid' = IF r.sid = 0 THEN nextSid + 1 ELSE nextSid
                 /\ hist' = [hist EXCEPT !.auth =
                                Put(@, sid, [state |-> "in", username |-> r.username,
                                             at |-> now])]
                 /\ Reply(r, 200, "Logged in", [NoData EXCEPT !.id = sid], FALSE)
    /\ UNCHANGED <<harness, dbVars, now, boot>>

\* a faulty logout that answers and leaves the session in the store: property
\* C17 tells it from the code's
HandleLogoutKeeping(cookie) ==
    LET req == Request("logout", cookie, <<>>, NoBody, "", "")
    IN  /\ sessions' = storeAfterGet(sessions, cookie, now)
        /\ last' = Event("handle", req, 200, "Logged out", NoData, FALSE, FALSE)
        /\ hist' = IF cookie = 0 THEN hist
                   ELSE [hist EXCEPT !.auth =
                            Put(@, cookie, [state |-> "out", username |-> "",
                                            at |-> 0])]
        /\ UNCHANGED <<harness, dbVars, nextSid, now, boot, inflight>>

\* POST /api/admin/logout: req.session.destroy removes the session from the store
HandleLogout(cookie) ==
    LET req == Request("logout", cookie, <<>>, NoBody, "", "")
    IN  /\ sessions' = Without(storeAfterGet(sessions, cookie, now), req.sid)
        /\ last' = Event("handle", req, 200, "Logged out", NoData, FALSE, FALSE)
        /\ hist' = IF cookie = 0 THEN hist
                   ELSE [hist EXCEPT !.auth =
                            Put(@, cookie, [state |-> "out", username |-> "",
                                            at |-> 0])]
        /\ UNCHANGED <<harness, dbVars, nextSid, now, boot, inflight>>

\* GET /api/admin/me
HandleMe(cookie) ==
    LET req == Request("me", cookie, <<>>, NoBody, "", "")
    IN  /\ IF ~isAdmin(req.sess) THEN Answer(req, 401, "Unauthorized", NoData)
           ELSE Answer(req, 200, "", [NoData EXCEPT !.username = req.sess.username])
        /\ UNCHANGED <<harness, dbVars, nextSid, now, boot, hist>>

-----------------------------------------------------------------------------
(* The admin routes: isAdmin runs first and answers 401 itself.             *)

Unauthorized(req) == Answer(req, 401, "Unauthorized", NoData)

\* GET /api/admin/registrations
HandleList(cookie) ==
    LET req == Request("list", cookie, <<>>, NoBody, "", "")
    IN  /\ IF ~isAdmin(req.sess) THEN Unauthorized(req)
           ELSE Issue(req, "all")
        /\ UNCHANGED <<harness, dbVars, nextSid, now, boot, hist>>

\* GET /api/admin/registrations/:id
HandleGet(cookie, pathId) ==
    LET req == Request("get", cookie, pathId, NoBody, "", "")
        id  == StringToNumber(pathId)
    IN  /\ IF ~isAdmin(req.sess) THEN Unauthorized(req)
           ELSE IF ~IsInteger(id) THEN Answer(req, 400, "Invalid id.", NoData)
           ELSE Issue(req, "get")
        /\ UNCHANGED <<harness, dbVars, nextSid, now, boot, hist>>

\* a faulty update handler that issues its statement without validating the
\* body: property C3 tells it from the code's
HandleUpdateUnvalidated(cookie, pathId, body) ==
    LET req == Request("update", cookie, pathId, body, "", "")
        id  == StringToNumber(pathId)
    IN  /\ IF ~isAdmin(req.sess) THEN Unauthorized(req)
           ELSE IF ~IsInteger(id) THEN Answer(req, 400, "Invalid id.", NoData)
           ELSE Issue(req, "update")
        /\ UNCHANGED <<harness, dbVars, nextSid, now, boot, hist>>

\* PUT /api/admin/registrations/:id
HandleUpdate(cookie, pathId, body) ==
    LET req   == Request("update", cookie, pathId, body, "", "")
        id    == StringToNumber(pathId)
        error == validateRegistration(body)
    IN  /\ IF ~isAdmin(req.sess) THEN Unauthorized(req)
           ELSE IF ~IsInteger(id) THEN Answer(req, 400, "Invalid id.", NoData)
           ELSE IF error # Null THEN Answer(req, 400, error, NoData)
           ELSE Issue(req, "update")
        /\ UNCHANGED <<harness, dbVars, nextSid, now, boot, hist>>

\* a faulty delete handler that binds whatever Number() made of the path's id:
\* property C18 tells it from the code's
HandleDeleteAnyId(cookie, pathId) ==
    LET req == Request("delete", cookie, pathId, NoBody, "", "")
    IN  /\ IF ~isAdmin(req.sess) THEN Unauthorized(req)
           ELSE Issue(req, "delete")
        /\ UNCHANGED <<harness, dbVars, nextSid, now, boot, hist>>

\* DELETE /api/admin/registrations/:id
HandleDelete(cookie, pathId) ==
    LET req == Request("delete", cookie, pathId, NoBody, "", "")
        id  == StringToNumber(pathId)
    IN  /\ IF ~isAdmin(req.sess) THEN Unauthorized(req)
           ELSE IF ~IsInteger(id) THEN Answer(req, 400, "Invalid id.", NoData)
           ELSE Issue(req, "delete")
        /\ UNCHANGED <<harness, dbVars, nextSid, now, boot, hist>>

\* text order of two created_at values ("T" and digits)
CharCode(c) == IF c \in Digits THEN 48 + DigitVal(c) ELSE 84

RECURSIVE TextLeq(_, _)
TextLeq(a, b) ==
    IF a = <<>> THEN TRUE
    ELSE IF b = <<>> THEN FALSE
    ELSE IF CharCode(Head(a)) # CharCode(Head(b)) THEN CharCode(Head(a)) < CharCode(Head(b))
    ELSE TextLeq(Tail(a), Tail(b))

\* the results of a statement that leaves out DESC, oldest first: property
\* C13 tells it from the code's
orderedByCreatedAt(rows) ==
    LET ids == DOMAIN rows
        n   == Cardinality(ids)
    IN  {[i \in 1..n |-> rows[o[i]]] :
            o \in {f \in [1..n -> ids] :
                    /\ \A i, j \in 1..n : i # j => f[i] # f[j]
                    /\ \A i \in 1..n : i < n =>
                          TextLeq(rows[f[i]].created_at.s, rows[f[i + 1]].created_at.s)}}

\* the results ORDER BY created_at DESC may give: rows of equal created_at
\* come in an order the statement does not fix
orderedByCreatedAtDesc(rows) ==
    LET ids == DOMAIN rows
        n   == Cardinality(ids)
    IN  {[i \in 1..n |-> rows[o[i]]] :
            o \in {f \in [1..n -> ids] :
                    /\ \A i, j \in 1..n : i # j => f[i] # f[j]
                    /\ \A i \in 1..n : i < n =>
                          TextLeq(rows[f[i + 1]].created_at.s, rows[f[i]].created_at.s)}}

\* the callback of SELECT ... FROM registrations ORDER BY created_at DESC
ExecAll(r) ==
    /\ r.stage = "all"
    /\ DbReady
    /\ \E fault \in BOOLEAN :
        IF fault \/ ~HasColumns
        THEN ReplyTouch(r, 500, "Failed to fetch registrations.", NoData, fault)
        ELSE \E rows \in orderedByCreatedAtDesc(registrations) :
                ReplyTouch(r, 200, "", [NoData EXCEPT !.rows = rows], FALSE)
    /\ UNCHANGED <<harness, dbVars, nextSid, now, boot, hist>>

\* the id a statement's WHERE id = ? is bound to
boundId(r) == StringToNumber(r.id).n

\* the callback of SELECT ... FROM registrations WHERE id = ?
ExecGet(r) ==
    /\ r.stage = "get"
    /\ DbReady
    /\ \E fault \in BOOLEAN :
        IF fault \/ ~HasColumns
        THEN ReplyTouch(r, 500, "Failed to fetch registration.", NoData, fault)
        ELSE IF boundId(r) \notin DOMAIN registrations
        THEN ReplyTouch(r, 404, "Not found.", NoData, FALSE)
        ELSE ReplyTouch(r, 200, "",
                        [NoData EXCEPT !.row = registrations[boundId(r)]], FALSE)
    /\ UNCHANGED <<harness, dbVars, nextSid, now, boot, hist>>

\* a faulty UPDATE that also sets created_at, from the body when it names
\* one: property C11 tells it from the code's
updatedRowFromBody(row, body) ==
    LET new == rowOf(0, body, <<>>)
    IN  [c \in DOMAIN row |->
            IF c = "id" THEN row[c]
            ELSE IF c = "created_at"
                 THEN (IF "createdAt" \in DOMAIN body THEN body.createdAt ELSE row[c])
            ELSE new[c]]

\* a faulty UPDATE that sets the name and leaves the other columns as they
\* are: property C22 tells it from the code's
updatedRowNameOnly(row, body) ==
    [row EXCEPT !.full_name = rowOf(0, body, <<>>).full_name]

\* UPDATE registrations SET <the nine validated columns> WHERE id = ?
updatedRow(row, body) ==
    LET new == rowOf(0, body, <<>>)
    IN  [c \in DOMAIN row |-> IF c \in {"id", "created_at"} THEN row[c] ELSE new[c]]

\* a faulty update statement that inserts the row when the id is not there
\* (INSERT OR REPLACE): property C7 tells it from the code's
ExecUpdateUpsert(r) ==
    /\ r.stage = "update"
    /\ DbReady
    /\ \E fault \in BOOLEAN :
        IF fault \/ ~HasColumns
        THEN /\ ReplyTouch(r, 500, "Failed to update registration.", NoData, fault)
             /\ UNCHANGED <<registrations, hist>>
        ELSE /\ registrations' = Put(registrations, boundId(r),
                                     rowOf(boundId(r), r.body, ToISOString(now)))
             /\ hist' = [hist EXCEPT !.created = Drop(@, boundId(r))]
             /\ ReplyTouch(r, 200, "Updated", NoData, FALSE)
    /\ UNCHANGED <<harness, regCols, adminCols, regSeq, admins, adminSeq,
                   nextSid, now, boot>>

\* updateCallback
ExecUpdate(r) ==
    /\ r.stage = "update"
    /\ DbReady
    /\ \E fault \in BOOLEAN :
        IF fault \/ ~HasColumns
        THEN /\ ReplyTouch(r, 500, "Failed to update registration.", NoData, fault)
             /\ UNCHANGED <<registrations, hist>>
        ELSE IF boundId(r) \notin DOMAIN registrations
        THEN /\ ReplyTouch(r, 404, "Not found.", NoData, FALSE)
             /\ UNCHANGED <<registrations, hist>>
        ELSE /\ registrations' = [registrations EXCEPT
                                    ![boundId(r)] = updatedRow(@, r.body)]
             /\ hist' = [hist EXCEPT !.created = Drop(@, boundId(r))]
             /\ ReplyTouch(r, 200, "Updated", NoData, FALSE)
    /\ UNCHANGED <<harness, regCols, adminCols, regSeq, admins, adminSeq,
                   nextSid, now, boot>>

\* a faulty delete callback that does not look at this.changes and answers
\* 200 for an id that is not there: property C8 tells it from the code's
ExecDeleteUnchecked(r) ==
    /\ r.stage = "delete"
    /\ DbReady
    /\ \E fault \in BOOLEAN :
        IF fault \/ regCols = <<>>
        THEN /\ ReplyTouch(r, 500, "Failed to delete registration.", NoData, fault)
             /\ UNCHANGED <<registrations, hist>>
        ELSE /\ registrations' = Drop(registrations, boundId(r))
             /\ hist' = [hist EXCEPT !.created = Drop(@, boundId(r)),
                                     !.deleted = @ \cup {boundId(r)}]
             /\ ReplyTouch(r, 200, "Deleted", NoData, FALSE)
    /\ UNCHANGED <<harness, regCols, adminCols, regSeq, admins, adminSeq,
                   nextSid, now, boot>>

\* a faulty delete statement without its WHERE, which empties the table:
\* property C23 tells it from the code's
ExecDeleteAll(r) ==
    /\ r.stage = "delete"
    /\ DbReady
    /\ \E fault \in BOOLEAN :
        IF fault \/ regCols = <<>>
        THEN /\ ReplyTouch(r, 500, "Failed to delete registration.", NoData, fault)
             /\ UNCHANGED <<registrations, hist>>
        ELSE IF registrations = <<>>
        THEN /\ ReplyTouch(r, 404, "Not found.", NoData, FALSE)
             /\ UNCHANGED <<registrations, hist>>
        ELSE /\ registrations' = <<>>
             /\ hist' = [hist EXCEPT !.created = <<>>,
                                     !.deleted = @ \cup DOMAIN registrations]
             /\ ReplyTouch(r, 200, "Deleted", NoData, FALSE)
    /\ UNCHANGED <<harness, regCols, adminCols, regSeq, admins, adminSeq,
                   nextSid, now, boot>>

\* deleteCallback
ExecDelete(r) ==
    /\ r.stage = "delete"
    /\ DbReady
    /\ \E fault \in BOOLEAN :
        IF fault \/ regCols = <<>>
        THEN /\ ReplyTouch(r, 500, "Failed to delete registration.", NoData, fault)
             /\ UNCHANGED <<registrations, hist>>
        ELSE IF boundId(r) \notin DOMAIN registrations
        THEN /\ ReplyTouch(r, 404, "Not found.", NoData, FALSE)
             /\ UNCHANGED <<registrations, hist>>
        ELSE /\ registrations' = Drop(registrations, boundId(r))
             /\ hist' = [hist EXCEPT !.created = Drop(@, boundId(r)),
                                     !.deleted = @ \cup {boundId(r)}]
             /\ ReplyTouch(r, 200, "Deleted", NoData, FALSE)
    /\ UNCHANGED <<harness, regCols, adminCols, regSeq, admins, adminSeq,
                   nextSid, now, boot>>

-----------------------------------------------------------------------------

Next ==
    \/ CreateRegistrationsTable
    \/ AddCityColumn
    \/ AddEmailColumn
    \/ CreateAdminsTable
    \/ AdminLookup
    \/ AdminHash
    \/ AdminInsert
    \/ Restart
    \/ Tick
    \/ \E cookie \in Cookies, body \in Bodies \cup {NoBody} : HandleCreate(cookie, body)
    \/ \E cookie \in Cookies, username \in LoginNames, password \in LoginPasswords :
          HandleLogin(cookie, username, password)
    \/ \E cookie \in Cookies : HandleLogout(cookie)
    \/ \E cookie \in Cookies : HandleMe(cookie)
    \/ \E cookie \in Cookies : HandleList(cookie)
    \/ \E cookie \in Cookies, pathId \in PathIds : HandleGet(cookie, pathId)
    \/ \E cookie \in Cookies, pathId \in PathIds, body \in Bodies \cup {NoBody} :
          HandleUpdate(cookie, pathId, body)
    \/ \E cookie \in Cookies, pathId \in PathIds : HandleDelete(cookie, pathId)
    \/ \E r \in inflight : ExecInsert(r)
    \/ \E r \in inflight : ExecLoginLookup(r)
    \/ \E r \in inflight : ExecLoginCompare(r)
    \/ \E r \in inflight : ExecAll(r)
    \/ \E r \in inflight : ExecGet(r)
    \/ \E r \in inflight : ExecUpdate(r)
    \/ \E r \in inflight : ExecDelete(r)

Spec == Init /\ [][Next]_vars

-----------------------------------------------------------------------------
(* The specification above is every behaviour of the server.  Its state    *)
(* space is the product of everything a client may send with every order in *)
(* which callbacks may run, so the properties are checked on restrictions   *)
(* of it: each starts in a state of Init and takes only steps of Next, with *)
(* the inputs narrowed to the part of the server the properties are about.  *)

InitFresh ==
    /\ Init
    /\ regCols = <<>>
    /\ boot.adminUsername = "admin"

BootSteps ==
    \/ CreateRegistrationsTable
    \/ AddCityColumn
    \/ AddEmailColumn
    \/ CreateAdminsTable
    \/ AdminLookup
    \/ AdminHash
    \/ AdminInsert

CrudPathIds == {<<"1">>, <<"2">>, <<"a","b","c">>}

CrudBodies == {PayloadA, PayloadB, PayloadBadPhone}

\* Registrations: one admin logs in once; the form and the dashboard send
\* creates, reads, updates and deletes, two of them at a time
NextCrud ==
    \/ BootSteps
    \/ /\ sessions = <<>>
       /\ inflight = {}
       /\ HandleLogin(0, "admin", AdminPassword)
    \/ \E body \in CrudBodies \cup {NoBody} : HandleCreate(0, body)
    \/ HandleGet(0, <<"1">>)
    \/ HandleUpdate(0, <<"1">>, PayloadA)
    \/ HandleDelete(0, <<"1">>)
    \/ \E cookie \in Cookies : HandleList(cookie)
    \/ \E cookie \in DOMAIN sessions, pathId \in CrudPathIds : HandleGet(cookie, pathId)
    \/ \E cookie \in DOMAIN sessions, pathId \in CrudPathIds, body \in CrudBodies :
          HandleUpdate(cookie, pathId, body)
    \/ \E cookie \in DOMAIN sessions, pathId \in CrudPathIds : HandleDelete(cookie, pathId)
    \/ \E r \in inflight : ExecInsert(r)
    \/ \E r \in inflight : ExecLoginLookup(r)
    \/ \E r \in inflight : ExecLoginCompare(r)
    \/ \E r \in inflight : ExecAll(r)
    \/ \E r \in inflight : ExecGet(r)
    \/ \E r \in inflight : ExecUpdate(r)
    \/ \E r \in inflight : ExecDelete(r)

SpecCrud == InitFresh /\ [][NextCrud]_vars

-----------------------------------------------------------------------------
(* validateRegistration on its own: a payload is drawn, the function is     *)
(* applied to it.                                                           *)

FullNameInputs == {Undef, JStr(<<>>), JStr(<<"A">>), JStr(<<"A","d","a">>)}

SexInputs == {Undef, JStr(<<>>), JStr(<<"f","e","m","a","l","e">>)}

PhoneInputs ==
    {Undef, JStr(S_phone1), JStr(S_phone2), JStr(S_phoneNoPlus), JStr(S_phoneShort),
     JStr(S_phoneLocal), JStr(S_phoneLongCc)}

EmailInputs == {Undef, JStr(S_email), JStr(<<"a","x",".","i","o">>)}

DestinationInputs == {Undef, JStr(<<"K","e","n","y","a">>)}

CityInputs == {Undef, JStr(<<"N">>), JStr(<<"N","a","i","r","o","b","i">>)}

PersonsInputs ==
    {Undef, JNum(0, 1), JNum(1, 1), JNum(20, 1), JNum(21, 1), JNum(5, 2), JNum(-1, 1),
     JStr(<<>>), JStr(<<"a","b","c">>), JStr(<<"1">>), JStr(<<"2","0">>),
     JStr(<<"0">>), JStr(<<"2","1">>), JStr(<<"2",".","5">>)}

TravelTimeInputs == {Undef, JStr(S_travel)}

ValidationInputs ==
    [fullName : FullNameInputs, sex : SexInputs, phone : PhoneInputs,
     email : EmailInputs, destination : DestinationInputs, city : CityInputs,
     persons : PersonsInputs, travelTime : TravelTimeInputs, message : {Undef}]

InitValidate ==
    /\ vin \in ValidationInputs \cup {NoBody}
    /\ vout = "idle"
    /\ regCols = <<>>
    /\ registrations = <<>>
    /\ regSeq = 0
    /\ adminCols = <<>>
    /\ admins = {}
    /\ adminSeq = 0
    /\ sessions = <<>>
    /\ nextSid = 0
    /\ now = 0
    /\ boot = [pc |-> "create_registrations", adminUsername |-> "admin",
               starts |-> 1, log |-> {}]
    /\ inflight = {}
    /\ last = Event("init", NoRequest, 0, "", NoData, FALSE, FALSE)
    /\ hist = FreshHist

Validate ==
    /\ vout = "idle"
    /\ vout' = validateRegistration(vin)
    /\ UNCHANGED <<vin, sysVars>>

SpecValidate == InitValidate /\ [][Validate]_vars

-----------------------------------------------------------------------------
(* Properties of validateRegistration.  The eight rules are written here as *)
(* the specification words them, on the text and the numbers of a payload,  *)
(* without the operators the function is modelled with.                     *)

Present(v) == v.t = "string" /\ v.s # <<>>

AtLeastTwoChars(v) == v.t = "string" /\ Len(v.s) >= 2

\* +<1-3 digits>-<3 digits>-<3 digits>-<4 digits>
PhoneShaped(v) ==
    /\ v.t = "string"
    /\ \E cc \in 1..3 :
        LET dashes == {cc + 2, cc + 6, cc + 10}
        IN  /\ Len(v.s) = cc + 14
            /\ v.s[1] = "+"
            /\ \A i \in 2..Len(v.s) :
                   IF i \in dashes THEN v.s[i] = "-" ELSE v.s[i] \in Digits

\* the decimal numeral of k, for 0 <= k < 100
Numeral(k) == IF k < 10 THEN <<DigitChar(k)>> ELSE <<DigitChar(k \div 10), DigitChar(k % 10)>>

\* persons is an integer between 1 and 20: the number, or its numeral
PersonsInRange(v) ==
    \E k \in 1..20 : v = JNum(k, 1) \/ v = JStr(Numeral(k))

RuleHolds(k, p) ==
    CASE k = 1 -> AtLeastTwoChars(p.fullName)
      [] k = 2 -> Present(p.sex)
      [] k = 3 -> PhoneShaped(p.phone)
      [] k = 4 -> Present(p.email) /\ "@" \in Range(p.email.s)
      [] k = 5 -> Present(p.destination)
      [] k = 6 -> AtLeastTwoChars(p.city)
      [] k = 7 -> PersonsInRange(p.persons)
      [] k = 8 -> Present(p.travelTime)

RuleMessage(k) ==
    CASE k = 1 -> MsgFullName [] k = 2 -> MsgSex         [] k = 3 -> MsgPhone
      [] k = 4 -> MsgEmail    [] k = 5 -> MsgDestination [] k = 6 -> MsgCity
      [] k = 7 -> MsgPersons  [] k = 8 -> MsgTravelTime

FailingRules(p) == {k \in 1..8 : ~RuleHolds(k, p)}

Validated == vout # "idle" /\ vin # NoBody

OtherRulesHold(p) == \A k \in (1..8) \ {7} : RuleHolds(k, p)

\* C5: for a payload that satisfies every other rule, persons is accepted
\* exactly when it is an integer with 1 <= value <= 20: 1 and 20 are accepted,
\* 0 and 21 are rejected, and values that are no integer ("abc", 2.5) are
\* rejected, each rejection with the persons message.
C5_PersonsBoundary ==
    (Validated /\ OtherRulesHold(vin)) =>
        /\ (vout = Null) <=> PersonsInRange(vin.persons)
        /\ vout \in {Null, MsgPersons}
        /\ vin.persons \in {JNum(1, 1), JNum(20, 1)} => vout = Null
        /\ vin.persons \in {JNum(0, 1), JNum(21, 1), JNum(5, 2), JStr(<<"a","b","c">>)}
              => vout = MsgPersons

\* the upper boundary is accepted
C5_Witness ==
    /\ Validated
    /\ OtherRulesHold(vin)
    /\ vin.persons = JNum(20, 1)
    /\ vout = Null

-----------------------------------------------------------------------------
(* Properties of the registration routes.  `last` is the step just taken:   *)
(* in a formula over a step, last' is that step's request and response, and *)
(* the unprimed variables are the state the step started from.  A fault is  *)
(* a statement that failed in the database (the err of a callback), which   *)
(* the routes answer with 500; the properties are about the other steps.    *)

Handled(e, route) == e.kind = "handle" /\ e.req.route = route

CalledBack(e, route) == e.kind = "callback" /\ e.req.route = route /\ ~e.issued

\* the store holds a live session with an admin identity under this cookie
HoldsIdentity(cookie) ==
    /\ cookie \in DOMAIN sessions
    /\ sessions[cookie].expires > now
    /\ sessions[cookie].adminId # 0

\* a create, or an update from an authenticated session, whose body fails
\* validation
InvalidWrite(e) ==
    /\ \/ Handled(e, "create")
       \/ Handled(e, "update") /\ HoldsIdentity(e.req.cookie)
    /\ validateRegistration(e.req.body) # Null

RejectedUntouched ==
    /\ last'.status = 400
    /\ last'.message = validateRegistration(last'.req.body)
    /\ ~last'.issued
    /\ inflight' = inflight
    /\ UNCHANGED dbVars

\* C3 as stated: a create or an authenticated update whose payload fails
\* validateRegistration returns 400 with the validation message, issues no
\* storage statement and leaves the store as it was.
C3_AsStated == [][InvalidWrite(last') => RejectedUntouched]_vars

\* C3, amended: a create, or an authenticated update whose path id is an
\* integer, with a payload that fails validateRegistration returns 400 with
\* the validation message, issues no storage statement and leaves the store
\* as it was.  (An update's id is checked before its body: with an id that is
\* no integer the answer is 400 "Invalid id.", whatever the body.)
C3_InvalidRejectedBeforeStorage ==
    [][(/\ InvalidWrite(last')
        /\ Handled(last', "update") => IsInteger(StringToNumber(last'.req.id)))
          => RejectedUntouched]_vars

\* an update of an existing record is turned away for its phone
C3_Witness ==
    /\ Handled(last, "update")
    /\ last.status = 400
    /\ last.message = MsgPhone
    /\ StringToNumber(last.req.id).n \in DOMAIN registrations

\* the number a valid persons value denotes
PersonsValue(v) ==
    CHOOSE x \in {JNum(k, 1) : k \in 1..20} : v = x \/ v = JStr(Numeral(x.n))

MessageValue(v) == IF v = Undef THEN JStr(<<>>) ELSE v

TextFieldsReturned(row, body) ==
    /\ row.full_name = body.fullName
    /\ row.sex = body.sex
    /\ row.phone = body.phone
    /\ row.email = body.email
    /\ row.destination = body.destination
    /\ row.city = body.city
    /\ row.travel_time = body.travelTime
    /\ row.message = MessageValue(body.message)

CreateAnswered ==
    (CalledBack(last, "create") /\ ~last.fault) =>
        /\ last.status = 201
        /\ last.message = "Saved"
        /\ last.data.id \in DOMAIN registrations
        /\ registrations[last.data.id].id = JNum(last.data.id, 1)

\* a get of a record that was created and neither updated nor deleted since
GetOfCreated ==
    /\ CalledBack(last, "get")
    /\ ~last.fault
    /\ boundId(last.req) \in DOMAIN hist.created

ServerAssigned(row, id) ==
    /\ row.id = JNum(id, 1)
    /\ row.created_at.t = "string"
    /\ row.created_at.s # <<>>

C7_UpdateMissingIs404 ==
    [][(/\ CalledBack(last', "update")
        /\ ~last'.fault
        /\ boundId(last'.req) \notin DOMAIN registrations)
          => /\ last'.status = 404
             /\ last'.message = "Not found."
             /\ registrations' = registrations
             /\ regSeq' = regSeq]_vars

\* an update of id 2 finds only record 1
C7_Witness ==
    /\ CalledBack(last, "update")
    /\ last.status = 404
    /\ boundId(last.req) = 2
    /\ DOMAIN registrations = {1}

\* C8: an authenticated delete of an id that is not there returns 404 and
\* changes nothing; a delete of an existing id returns 200 "Deleted" and
\* removes that record and no other; every later get of that id returns 404.
C8_DeleteThenGet404 ==
    [][/\ (CalledBack(last', "delete") /\ ~last'.fault) =>
             IF boundId(last'.req) \in DOMAIN registrations
             THEN /\ last'.status = 200
                  /\ last'.message = "Deleted"
                  /\ DOMAIN registrations' = DOMAIN registrations \ {boundId(last'.req)}
                  /\ \A id \in DOMAIN registrations' : registrations'[id] = registrations[id]
             ELSE /\ last'.status = 404
                  /\ registrations' = registrations
       /\ (/\ CalledBack(last', "get")
           /\ ~last'.fault
           /\ boundId(last'.req) \in hist.deleted)
             => last'.status = 404]_vars

\* record 1 was deleted, record 2 is still there, and a get of 1 returns 404
C8_Witness ==
    /\ CalledBack(last, "get")
    /\ last.status = 404
    /\ boundId(last.req) \in hist.deleted
    /\ registrations # <<>>

-----------------------------------------------------------------------------
(* Sessions: logins with good and bad credentials, logouts and session      *)
(* checks, with and without a cookie, while the clock runs.                 *)

LoginInputs ==
    {<<"", "admin123">>, <<"admin", "">>, <<"admin", "admin123">>,
     <<"admin", "wrong">>, <<"ghost", "admin123">>}

NextAuth ==
    \/ BootSteps
    \/ Tick
    \/ \E cookie \in Cookies, c \in LoginInputs : HandleLogin(cookie, c[1], c[2])
    \/ \E cookie \in Cookies : HandleLogout(cookie)
    \/ \E cookie \in Cookies : HandleMe(cookie)
    \/ \E r \in inflight : ExecLoginLookup(r)
    \/ \E r \in inflight : ExecLoginCompare(r)

SpecAuth == InitFresh /\ [][NextAuth]_vars

-----------------------------------------------------------------------------
(* The gate: one registration is made, one admin logs in, logs out or lets  *)
(* the session run out, and the admin routes are called with and without    *)
(* the session's cookie, one statement at a time.                           *)

\* a handler issues its statement when no other request awaits a callback
OneAtATime == Cardinality(inflight') <= 1

NextGate ==
    \/ BootSteps
    \/ Tick
    \/ /\ regSeq = 0
       /\ now = 0
       /\ HandleCreate(0, PayloadA)
       /\ OneAtATime
    \/ /\ nextSid = 0
       /\ HandleLogin(0, "admin", AdminPassword)
       /\ OneAtATime
    \/ \E cookie \in Cookies : HandleLogout(cookie)
    \/ \E cookie \in Cookies : HandleList(cookie) /\ OneAtATime
    \/ \E cookie \in Cookies : HandleGet(cookie, <<"1">>) /\ OneAtATime
    \/ \E cookie \in Cookies : HandleUpdate(cookie, <<"1">>, PayloadB) /\ OneAtATime
    \/ \E cookie \in Cookies : HandleDelete(cookie, <<"1">>) /\ OneAtATime
    \/ \E r \in inflight : ExecInsert(r)
    \/ \E r \in inflight : ExecLoginLookup(r)
    \/ \E r \in inflight : ExecLoginCompare(r)
    \/ \E r \in inflight : ExecAll(r)
    \/ \E r \in inflight : ExecGet(r)
    \/ \E r \in inflight : ExecUpdate(r)
    \/ \E r \in inflight : ExecDelete(r)

SpecGate == InitFresh /\ [][NextGate]_vars

-----------------------------------------------------------------------------
(* The gate.                                                                *)

GatedRoutes == {"list", "get", "update", "delete"}

\* by the history, this cookie's session never logged in or has logged out
NeverInOrOut(cookie) ==
    cookie \notin DOMAIN hist.auth \/ hist.auth[cookie].state = "out"

\* C1: a list, get, update or delete request whose session carries no admin
\* identity (it never logged in, it logged out, or it expired) is answered
\* 401 "Unauthorized" before the route's operation runs: no statement is
\* issued for it and the store is unchanged.
C1_GateRejectsFirst ==
    [][(/\ last'.kind = "handle"
        /\ last'.req.route \in GatedRoutes
        /\ ~HoldsIdentity(last'.req.cookie) \/ NeverInOrOut(last'.req.cookie))
          => /\ last'.status = 401
             /\ last'.message = "Unauthorized"
             /\ ~last'.issued
             /\ inflight' = inflight
             /\ UNCHANGED dbVars]_vars

\* a delete with the cookie of a session that logged out, a record in the store
C1_Witness ==
    /\ Handled(last, "delete")
    /\ last.status = 401
    /\ last.req.cookie \in DOMAIN hist.auth
    /\ hist.auth[last.req.cookie].state = "out"
    /\ registrations # <<>>

-----------------------------------------------------------------------------
(* Login, logout and the session check.                                     *)

\* the session check was asked with a cookie that a login or a logout used
MeAnswered == Handled(last, "me") /\ last.req.cookie \in DOMAIN hist.auth

\* C2 as stated: after a login with correct credentials, GET /api/admin/me on
\* the same session returns 200 with the logged-in username (while the
\* session has not run out); after a logout on that session it returns 401,
\* until a later successful login.
C2_AsStated ==
    MeAnswered =>
        LET a == hist.auth[last.req.cookie]
        IN  /\ (a.state = "in" /\ now < a.at + MaxAge)
                  => last.status = 200 /\ last.data.username = a.username
            /\ a.state = "out" => last.status = 401

\* the session check answers 200 on a second session, after the first one
\* logged out and answers 401
C2_Witness ==
    /\ MeAnswered
    /\ last.status = 200
    /\ \E c \in DOMAIN hist.auth : hist.auth[c].state = "out"

UnknownUser(username) == \A a \in admins : a.username # username

WrongPassword(username, password) ==
    /\ \E a \in admins : a.username = username
    /\ password # AdminPassword

\* a login with both fields given that fails for its username or its password
FailedLogin(e) ==
    /\ CalledBack(e, "login")
    /\ ~e.fault
    /\ \/ UnknownUser(e.req.username)
       \/ WrongPassword(e.req.username, e.req.password)

Identities(store) == {sid \in DOMAIN store : store[sid].adminId # 0}

\* C10: a login with a non-empty username and password that fails because
\* the username does not exist and one that fails because the password is
\* wrong get the same response, 401 "Invalid credentials.", and neither
\* authenticates a session.
C10_UniformLoginFailure ==
    [][FailedLogin(last')
          => /\ last'.status = 401
             /\ last'.message = "Invalid credentials."
             /\ last'.data = NoData
             /\ Identities(sessions') \subseteq Identities(sessions)
             /\ nextSid' = nextSid]_vars

\* the wrong password for the admin that exists
C10_Witness ==
    /\ CalledBack(last, "login")
    /\ last.status = 401
    /\ WrongPassword(last.req.username, last.req.password)

-----------------------------------------------------------------------------
(* Starting again on the same database file: the process is started twice,  *)
(* on a new file or on one from before the email and city columns, with     *)
(* either admin username configured, and registrations come in between.     *)

NextBoot ==
    \/ BootSteps
    \/ Restart
    \/ HandleCreate(0, PayloadA)
    \/ \E r \in inflight : ExecInsert(r)

SpecBoot == Init /\ [][NextBoot]_vars

\* both tables are there with every column the code names
SchemaComplete ==
    /\ Range(RegistrationColumns) \subseteq Range(regCols)
    /\ adminCols = AdminColumns

ConfiguredAdminStored == \E a \in admins : a.username = boot.adminUsername

NoDuplicateColumns(cols) == \A i, j \in DOMAIN cols : cols[i] = cols[j] => i = j

\* C9: initializeDatabase is idempotent.  A step of it on a store that is
\* already initialized reports no error, leaves tables and columns as they
\* are (none twice) and every registration and admin row unchanged; with the
\* configured admin stored, nothing changes at all, so that n runs leave the
\* state of one run.  A run that ends without an error leaves the store
\* initialized.
C9_InitializeIdempotent ==
    [][/\ (last'.kind = "boot" /\ ~last'.fault /\ SchemaComplete)
            => /\ regCols' = regCols
               /\ adminCols' = adminCols
               /\ NoDuplicateColumns(regCols')
               /\ registrations' = registrations
               /\ regSeq' = regSeq
               /\ admins \subseteq admins'
               /\ ConfiguredAdminStored => UNCHANGED dbVars
               /\ boot'.log = boot.log
       /\ (last'.kind = "boot" /\ boot'.pc = "done" /\ boot'.log = {})
            => SchemaComplete' /\ ConfiguredAdminStored']_vars

\* the second start has run to its end on a store that holds a registration
C9_Witness ==
    /\ last.kind = "boot"
    /\ boot.starts = 2
    /\ boot.pc = "done"
    /\ boot.log = {}
    /\ SchemaComplete
    /\ registrations # <<>>

-----------------------------------------------------------------------------
(* Records: registrations are made, updated and deleted, with bodies that   *)
(* name an id and a createdAt or a sex outside the form's options, two      *)
(* requests at a time.                                                      *)

RecordBodies == {PayloadA, PayloadForged, PayloadOtherSex, PayloadNumberName}

RecordPathIds == {<<"1">>, <<"2">>}

NextRecords ==
    \/ BootSteps
    \/ /\ nextSid = 0
       /\ inflight = {}
       /\ HandleLogin(0, "admin", AdminPassword)
    \/ \E body \in RecordBodies : HandleCreate(0, body)
    \/ \E cookie \in DOMAIN sessions, pathId \in RecordPathIds :
          HandleUpdate(cookie, pathId, PayloadForged)
    \/ \E cookie \in DOMAIN sessions : HandleUpdate(cookie, <<"1">>, PayloadB)
    \/ \E cookie \in DOMAIN sessions, pathId \in RecordPathIds :
          HandleDelete(cookie, pathId)
    \/ \E r \in inflight : ExecInsert(r)
    \/ \E r \in inflight : ExecLoginLookup(r)
    \/ \E r \in inflight : ExecLoginCompare(r)
    \/ \E r \in inflight : ExecUpdate(r)
    \/ \E r \in inflight : ExecDelete(r)

SpecRecords == InitFresh /\ [][NextRecords]_vars

-----------------------------------------------------------------------------
(* The list: registrations are made at different hours and deleted, and the *)
(* admin asks for the list, one statement at a time.                        *)

NextList ==
    \/ BootSteps
    \/ Tick
    \/ /\ nextSid = 0
       /\ HandleLogin(0, "admin", AdminPassword)
       /\ OneAtATime
    \/ HandleCreate(0, PayloadA) /\ OneAtATime
    \/ \E cookie \in DOMAIN sessions : HandleList(cookie) /\ OneAtATime
    \/ \E cookie \in DOMAIN sessions : HandleDelete(cookie, <<"1">>) /\ OneAtATime
    \/ \E r \in inflight : ExecInsert(r)
    \/ \E r \in inflight : ExecLoginLookup(r)
    \/ \E r \in inflight : ExecLoginCompare(r)
    \/ \E r \in inflight : ExecAll(r)
    \/ \E r \in inflight : ExecDelete(r)

SpecList == InitFresh /\ [][NextList]_vars

-----------------------------------------------------------------------------
(* Properties of the records.                                               *)

NamesIdAndCreatedAt(body) == {"id", "createdAt"} \subseteq DOMAIN body

\* C11: a record's id and createdAt are assigned by the server at creation,
\* never taken from the payload, and after any sequence of updates they are
\* the values assigned at creation, also when the bodies of the create and
\* of the updates name an id and a createdAt.
C11_IdAndCreatedAtKept ==
    /\ \A id \in DOMAIN registrations \cap DOMAIN hist.born :
          /\ registrations[id].id = JNum(id, 1)
          /\ registrations[id].created_at = hist.born[id]
    /\ (/\ CalledBack(last, "create")
        /\ last.status = 201
        /\ NamesIdAndCreatedAt(last.req.body))
          => /\ registrations[last.data.id].id # last.req.body.id
             /\ registrations[last.data.id].created_at # last.req.body.createdAt
             /\ \E t \in 0..now :
                   registrations[last.data.id].created_at = JStr(ToISOString(t))

\* an update whose body names an id and a createdAt has replaced the fields
\* of a record made from another body
C11_Witness ==
    /\ CalledBack(last, "update")
    /\ last.status = 200
    /\ NamesIdAndCreatedAt(last.req.body)
    /\ registrations[boundId(last.req)].full_name = last.req.body.fullName
    /\ registrations[boundId(last.req)].created_at = hist.born[boundId(last.req)]
    /\ boundId(last.req) = 2

\* C12: registration ids are unique and monotonically assigned: every
\* successful create returns an id greater than every id an earlier create
\* returned, whatever was updated or deleted in between, so that no id is
\* used twice, not even the id of a deleted record.
C12_IdsMonotone ==
    [][(CalledBack(last', "create") /\ last'.status = 201)
          => /\ \A id \in DOMAIN hist.born : last'.data.id > id
             /\ last'.data.id \notin DOMAIN registrations
             /\ last'.data.id \notin hist.deleted
             /\ DOMAIN registrations' = DOMAIN registrations \cup {last'.data.id}]_vars

\* record 1 was deleted, and the next create is given id 2
C12_Witness ==
    /\ CalledBack(last, "create")
    /\ last.status = 201
    /\ last.data.id = 2
    /\ 1 \in hist.deleted

\* the hour a createdAt tells
HourOf(v) == DigitsVal(Tail(v.s))

\* C13: an authenticated list request returns every registration in the
\* store exactly once, newest createdAt first: of two adjacent records of the
\* response the earlier one's createdAt is greater than or equal to the
\* later one's.
C13_ListNewestFirst ==
    (CalledBack(last, "list") /\ ~last.fault) =>
        LET rows == last.data.rows
        IN  /\ last.status = 200
            /\ Len(rows) = Cardinality(DOMAIN registrations)
            /\ {rows[i].id.n : i \in 1..Len(rows)} = DOMAIN registrations
            /\ \A i \in 1..Len(rows) : rows[i] = registrations[rows[i].id.n]
            /\ \A i \in 1..(Len(rows) - 1) :
                  HourOf(rows[i].created_at) >= HourOf(rows[i + 1].created_at)

\* two records made at different hours are listed, the later one first
C13_Witness ==
    /\ CalledBack(last, "list")
    /\ last.status = 200
    /\ Len(last.data.rows) = 2
    /\ HourOf(last.data.rows[1].created_at) > HourOf(last.data.rows[2].created_at)

\* the rules of validation, read on a stored record
RecordValid(row) ==
    /\ AtLeastTwoChars(row.full_name)
    /\ AtLeastTwoChars(row.city)
    /\ PhoneShaped(row.phone)
    /\ Present(row.email) /\ "@" \in Range(row.email.s)
    /\ Present(row.destination)
    /\ Present(row.travel_time)
    /\ \E k \in 1..20 : row.persons = JNum(k, 1)

\* C14 as stated: every registration in the store, in every reachable state,
\* satisfies the validation rules: fullName and city of length >= 2, phone of
\* the shape +<1-3 digits>-<3 digits>-<3 digits>-<4 digits>, email with an
\* "@", destination and travelTime not empty, persons an integer in [1, 20].
C14_AsStated == \A id \in DOMAIN registrations : RecordValid(registrations[id])

\* a record is stored whose name is the one character "5"
C14_Witness ==
    \E id \in DOMAIN registrations :
        /\ registrations[id].full_name = JStr(<<"5">>)
        /\ id \in DOMAIN hist.born

\* what holds: a record written from a body whose fields are all texts (and
\* persons a text or a number) satisfies the rules
C14_TextBodiesStoredValid ==
    \A id \in DOMAIN registrations :
        registrations[id].full_name # JStr(<<"5">>) => RecordValid(registrations[id])

\* the options the form offers for sex
SexOptions ==
    {JStr(<<"f","e","m","a","l","e">>),
     JStr(<<"m","a","l","e">>),
     JStr(<<"n","o","n","b","i","n","a","r","y">>),
     JStr(<<"p","r","e","f","e","r","-","n","o","t">>)}

\* C15 as stated: the sex of every stored registration is one of female,
\* male, nonbinary and prefer-not.
C15_AsStated == \A id \in DOMAIN registrations : registrations[id].sex \in SexOptions

\* a record created by the server is stored whose sex is "x"
C15_Witness ==
    \E id \in DOMAIN registrations :
        /\ registrations[id].sex = JStr(<<"x">>)
        /\ id \in DOMAIN hist.born

-----------------------------------------------------------------------------
(* The life of a session.                                                   *)

\* C16 as stated: a session's expiry is fixed at login, maxAge after it, and
\* activity does not extend it: a session check with the session's token,
\* maxAge or more after the login, is answered 401.
C16_AsStated ==
    (/\ MeAnswered
     /\ hist.auth[last.req.cookie].state = "in"
     /\ now >= hist.auth[last.req.cookie].at + MaxAge)
        => last.status = 401

\* a session check is answered 200, maxAge after the login of its session
C16_Witness ==
    /\ MeAnswered
    /\ hist.auth[last.req.cookie].state = "in"
    /\ now >= hist.auth[last.req.cookie].at + MaxAge
    /\ last.status = 200
    /\ sessions[last.req.cookie].expires > hist.auth[last.req.cookie].at + MaxAge

\* the tokens the store takes for an admin's at time t
Authenticated(store, t) ==
    {sid \in DOMAIN store : store[sid].expires > t /\ store[sid].adminId # 0}

\* C17: a logout is answered 200 "Logged out" whether or not its session was
\* authenticated; afterwards its token is not authenticated and every other
\* session is as it was, so that a second logout with the same token gets the
\* same response and leaves the sessions and the database as they are.
C17_LogoutIdempotent ==
    [][Handled(last', "logout")
          => /\ last'.status = 200
             /\ last'.message = "Logged out"
             /\ last'.data = NoData
             /\ Authenticated(sessions', now') = Authenticated(sessions, now) \ {last'.req.cookie}
             /\ \A sid \in Authenticated(sessions', now') : sessions'[sid] = sessions[sid]
             /\ last'.req.cookie \notin Authenticated(sessions, now)
                   => Authenticated(sessions', now') = Authenticated(sessions, now)
             /\ UNCHANGED <<dbVars, inflight, nextSid>>]_vars

\* a logout with the token of a session that an earlier logout destroyed (at
\* hour 0 no session has run out), while another session is logged in
C17_Witness ==
    /\ Handled(last, "logout")
    /\ last.status = 200
    /\ last.req.cookie # 0
    /\ last.req.sess = NoSession
    /\ now = 0
    /\ Authenticated(sessions, now) # {}

-----------------------------------------------------------------------------
(* Path ids: one registration is made, one admin logs in and gets, updates  *)
(* and deletes under ids that are integers and ids that are not.            *)

IdInputs == {<<"1">>, <<"1",".","0">>, <<"1",".","5">>, <<"1","x">>, <<"a","b","c">>}

IdBodies == {PayloadB, PayloadBadPhone}

NextIds ==
    \/ BootSteps
    \/ /\ nextSid = 0
       /\ inflight = {}
       /\ HandleLogin(0, "admin", AdminPassword)
    \/ /\ regSeq = 0
       /\ HandleCreate(0, PayloadA)
    \/ \E cookie \in DOMAIN sessions, pathId \in IdInputs : HandleGet(cookie, pathId)
    \/ \E cookie \in DOMAIN sessions, pathId \in IdInputs, body \in IdBodies :
          HandleUpdate(cookie, pathId, body)
    \/ \E cookie \in DOMAIN sessions, pathId \in IdInputs : HandleDelete(cookie, pathId)
    \/ \E r \in inflight : ExecInsert(r)
    \/ \E r \in inflight : ExecLoginLookup(r)
    \/ \E r \in inflight : ExecLoginCompare(r)
    \/ \E r \in inflight : ExecGet(r)
    \/ \E r \in inflight : ExecUpdate(r)
    \/ \E r \in inflight : ExecDelete(r)

SpecIds == InitFresh /\ [][NextIds]_vars

\* the text of a path id is not that of an integer: it has a character that
\* is neither a digit nor a point, or more than one point, or no digit, or a
\* digit other than 0 after the point
NonIntegerId(chars) ==
    LET points == {i \in 1..Len(chars) : chars[i] = "."}
    IN  \/ \E i \in 1..Len(chars) : chars[i] \notin Digits \cup {"."}
        \/ Cardinality(points) > 1
        \/ \A i \in 1..Len(chars) : chars[i] \notin Digits
        \/ \E p \in points : \E i \in (p + 1)..Len(chars) : chars[i] \in Digits \ {"0"}

\* C18: a get, an update or a delete from an authenticated session whose path
\* id is not an integer is answered 400 "Invalid id." before any statement is
\* issued, and the store is unchanged.
C18_InvalidIdRejected ==
    [][(/\ \/ Handled(last', "get")
           \/ Handled(last', "update")
           \/ Handled(last', "delete")
        /\ HoldsIdentity(last'.req.cookie)
        /\ NonIntegerId(last'.req.id))
          => /\ last'.status = 400
             /\ last'.message = "Invalid id."
             /\ ~last'.issued
             /\ UNCHANGED <<dbVars, inflight>>]_vars

\* a delete under the id "1.5" is answered 400 while record 1 is in the store
C18_Witness ==
    /\ Handled(last, "delete")
    /\ last.req.id = <<"1", ".", "5">>
    /\ isAdmin(last.req.sess)
    /\ last.status = 400
    /\ 1 \in DOMAIN registrations

-----------------------------------------------------------------------------
(* Requests while the database is being initialized.                        *)

\* a login with the configured admin's name and password got its answer, the
\* database having reported no error to it or to initializeDatabase
DefaultLoginAnswered ==
    /\ CalledBack(last, "login")
    /\ ~last.fault
    /\ last.req.username = boot.adminUsername
    /\ last.req.password = AdminPassword
    /\ boot.log = {}

\* C19 as stated: initializeDatabase and ensureDefaultAdmin complete ahead of
\* request handling: no request is processed while they are in progress, so
\* a login with the default credentials is never answered before the admin
\* row exists.
C19_AsStated ==
    /\ last.kind \in {"handle", "callback"} => boot.pc = "done"
    /\ DefaultLoginAnswered => ConfiguredAdminStored

\* a login with the default credentials is answered 401 while the admin's
\* password is being hashed or its row inserted
C19_Witness ==
    /\ DefaultLoginAnswered
    /\ last.status = 401
    /\ boot.pc \in {"hash", "insert"}
    /\ admins = {}

-----------------------------------------------------------------------------
(* The token of a login.                                                    *)

LoggedIn(e) == CalledBack(e, "login") /\ e.status = 200

\* C20 as stated: every successful login creates a new session with a fresh
\* token, a second login on an already authenticated session included: the
\* token of the session it leaves authenticated was never issued before and
\* names no session of the store.
C20_AsStated ==
    [][LoggedIn(last')
          => /\ last'.data.id \notin 1..nextSid
             /\ last'.data.id \notin DOMAIN sessions
             /\ last'.data.id \in Authenticated(sessions', now')]_vars

\* a login sent with the cookie of an authenticated session is answered 200
\* and the session keeps the token it had
C20_Witness ==
    /\ LoggedIn(last)
    /\ last.req.cookie # 0
    /\ isAdmin(last.req.sess)
    /\ last.data.id = last.req.cookie
    /\ last.data.id \in Authenticated(sessions, now)

-----------------------------------------------------------------------------
(* The admins after a start.                                                *)

\* initializeDatabase and ensureDefaultAdmin have run to their end and
\* logged no error
BootSucceeded == boot.pc = "done" /\ boot.log = {}

UsernamesUnique == \A a, b \in admins : a.username = b.username => a = b

\* C21 as stated: after a successful bootstrap the admins table holds exactly
\* one admin and no two admins share a username, after any number of starts
\* on the same database, whatever admin username each start is configured
\* with.
C21_AsStated == BootSucceeded => Cardinality(admins) = 1 /\ UsernamesUnique

\* the second start, configured with another username, has succeeded and
\* the table holds the admin of each start
C21_Witness ==
    /\ BootSucceeded
    /\ boot.starts = 2
    /\ {a.username : a \in admins} = AdminNames

\* what holds: after a successful bootstrap the configured admin is stored,
\* and usernames are unique in every state
C21_ConfiguredAdminUnique ==
    /\ UsernamesUnique
    /\ BootSucceeded => ConfiguredAdminStored

-----------------------------------------------------------------------------
(* Races: an admin logs in, registrations are made, and updates and        *)
(* deletes of record 1 are sent while it is in the table and while others   *)
(* still await their callbacks, so that a request which finds the record    *)
(* gone was sent before the delete that removed it had committed.           *)

RaceBodies == {PayloadB, PayloadForged}

NextRace ==
    \/ BootSteps
    \/ /\ nextSid = 0
       /\ inflight = {}
       /\ HandleLogin(0, "admin", AdminPassword)
    \/ HandleCreate(0, PayloadA)
    \/ /\ 1 \in DOMAIN registrations
       /\ \E cookie \in DOMAIN sessions, body \in RaceBodies :
             HandleUpdate(cookie, <<"1">>, body)
    \/ /\ 1 \in DOMAIN registrations
       /\ \E cookie \in DOMAIN sessions : HandleDelete(cookie, <<"1">>)
    \/ \E r \in inflight : ExecInsert(r)
    \/ \E r \in inflight : ExecLoginLookup(r)
    \/ \E r \in inflight : ExecLoginCompare(r)
    \/ \E r \in inflight : ExecUpdate(r)
    \/ \E r \in inflight : ExecDelete(r)

SpecRace == InitFresh /\ [][NextRace]_vars

\* the validated fields of the record are those of this body, all of them
WrittenFrom(row, body) ==
    /\ TextFieldsReturned(row, body)
    /\ row.persons = PersonsValue(body.persons)

\* an update's statement ran without a database error on a record that is
\* in the table
UpdateCommitted(e) ==
    /\ CalledBack(e, "update")
    /\ ~e.fault
    /\ boundId(e.req) \in DOMAIN registrations

\* C22: when two authenticated, valid updates of the same existing id are
\* processed concurrently, each returns 200 and the last one committed wins:
\* after each commit the validated fields of the record are entirely those of
\* the committed body, its id and createdAt are unchanged, and the other
\* records and the update still in flight are untouched; no record ever holds
\* a mixture of the fields of two bodies.
C22_LastWriteWins ==
    [][/\ UpdateCommitted(last')
            => LET id == boundId(last'.req)
               IN  /\ last'.status = 200
                   /\ last'.message = "Updated"
                   /\ DOMAIN registrations' = DOMAIN registrations
                   /\ WrittenFrom(registrations'[id], last'.req.body)
                   /\ registrations'[id].id = registrations[id].id
                   /\ registrations'[id].created_at = registrations[id].created_at
                   /\ \A other \in DOMAIN registrations \ {id} :
                         registrations'[other] = registrations[other]
                   /\ inflight' = inflight \ {last'.req}
       /\ \A id \in DOMAIN registrations' :
             \E body \in RaceBodies \cup {PayloadA} : WrittenFrom(registrations'[id], body)]_vars

\* an update of record 1 has committed and been answered 200 while an update
\* of record 1 from the other body awaits its callback
C22_Witness ==
    /\ CalledBack(last, "update")
    /\ last.status = 200
    /\ last.req.body = PayloadB
    /\ WrittenFrom(registrations[1], PayloadB)
    /\ \E r \in inflight :
          r.route = "update" /\ r.stage = "update" /\ boundId(r) = 1 /\ r.body = PayloadForged

-----------------------------------------------------------------------------
(* Every route: registrations with a valid and an invalid body, logins that *)
(* succeed and fail, and the admin routes with and without a session, under *)
(* ids that are there, ids that are not and an id that is no integer, one   *)
(* statement at a time.                                                     *)

FrameLogins == {<<"admin", "admin123">>, <<"admin", "wrong">>, <<"", "admin123">>}

FrameBodies == {PayloadB, PayloadBadPhone}

FramePathIds == {<<"1">>, <<"2">>, <<"a","b","c">>}

NextFrame ==
    \/ BootSteps
    \/ \E c \in FrameLogins : HandleLogin(0, c[1], c[2]) /\ nextSid = 0 /\ OneAtATime
    \/ \E body \in {PayloadA, PayloadBadPhone} : HandleCreate(0, body) /\ OneAtATime
    \/ \E cookie \in Cookies : HandleLogout(cookie)
    \/ \E cookie \in Cookies : HandleMe(cookie)
    \/ \E cookie \in Cookies : HandleList(cookie) /\ OneAtATime
    \/ \E cookie \in Cookies, pathId \in FramePathIds : HandleGet(cookie, pathId) /\ OneAtATime
    \/ \E cookie \in Cookies, pathId \in FramePathIds, body \in FrameBodies :
          HandleUpdate(cookie, pathId, body) /\ OneAtATime
    \/ \E cookie \in Cookies, pathId \in FramePathIds : HandleDelete(cookie, pathId) /\ OneAtATime
    \/ \E r \in inflight : ExecInsert(r)
    \/ \E r \in inflight : ExecLoginLookup(r)
    \/ \E r \in inflight : ExecLoginCompare(r)
    \/ \E r \in inflight : ExecAll(r)
    \/ \E r \in inflight : ExecGet(r)
    \/ \E r \in inflight : ExecUpdate(r)
    \/ \E r \in inflight : ExecDelete(r)

SpecFrame == InitFresh /\ [][NextFrame]_vars

\* a request got its answer in this step
Answered(e) == e.kind \in {"handle", "callback"} /\ ~e.issued

Created(e) == CalledBack(e, "create") /\ e.status = 201

Updated(e) == CalledBack(e, "update") /\ e.status = 200

Deleted(e) == CalledBack(e, "delete") /\ e.status = 200

\* the records other than this one are what they were
OthersKept(old, new, id) == \A other \in (DOMAIN old \cup DOMAIN new) \ {id} :
    other \in DOMAIN old /\ other \in DOMAIN new /\ new[other] = old[other]

\* C23: the registrations change only through the three writes.  A
\* successful create adds exactly one record, a successful update replaces
\* the validated fields of exactly one record, a successful delete removes
\* exactly one record; every other request (login, logout, me, list, get) and
\* every request answered 400, 401 or 404 leaves the registrations as they
\* are.
C23_OnlyWritesChange ==
    [][/\ registrations' # registrations
            => Created(last') \/ Updated(last') \/ Deleted(last')
       /\ Created(last')
            => /\ last'.data.id \notin DOMAIN registrations
               /\ last'.data.id \in DOMAIN registrations'
               /\ OthersKept(registrations, registrations', last'.data.id)
       /\ Updated(last')
            => LET id == boundId(last'.req)
               IN  /\ id \in DOMAIN registrations
                   /\ id \in DOMAIN registrations'
                   /\ WrittenFrom(registrations'[id], last'.req.body)
                   /\ registrations'[id].id = registrations[id].id
                   /\ registrations'[id].created_at = registrations[id].created_at
                   /\ OthersKept(registrations, registrations', id)
       /\ Deleted(last')
            => /\ boundId(last'.req) \in DOMAIN registrations
               /\ boundId(last'.req) \notin DOMAIN registrations'
               /\ OthersKept(registrations, registrations', boundId(last'.req))
       /\ (/\ Answered(last')
           /\ \/ last'.req.route \in {"login", "logout", "me", "list", "get"}
              \/ last'.status \in {400, 401, 404})
            => registrations' = registrations /\ regSeq' = regSeq]_vars

\* a delete of record 1 was answered 200 and record 2 is still in the table
C23_Witness ==
    /\ Deleted(last)
    /\ boundId(last.req) = 1
    /\ DOMAIN registrations = {2}

-----------------------------------------------------------------------------
(* Logins that fail.                                                        *)

\* a login got an answer other than 200: 400 for a missing field, 401 for
\* the credentials, 500 for an error of the database or of the comparison
LoginFailed(e) ==
    /\ Answered(e)
    /\ e.req.route = "login"
    /\ e.status \in {400, 401, 500}

\* C24: a login that fails (400, 401 or 500) does not change the state of a
\* session: no session is created, the request's session is authenticated
\* afterwards exactly if it was before, and every session that was
\* authenticated keeps its adminId and its username.
C24_FailedLoginKeepsSessions ==
    [][LoginFailed(last')
          => /\ DOMAIN sessions' \subseteq DOMAIN sessions
             /\ nextSid' = nextSid
             /\ Authenticated(sessions', now') = Authenticated(sessions, now)
             /\ \A sid \in Authenticated(sessions, now) :
                   /\ sessions'[sid].adminId = sessions[sid].adminId
                   /\ sessions'[sid].username = sessions[sid].username
             /\ storeGet(sessions', last'.req.cookie, now')
                   = storeGet(sessions, last'.req.cookie, now)]_vars

\* a login with a wrong password, sent with the cookie of an authenticated
\* session, was answered 401 and the session is still the admin's
C24_Witness ==
    /\ LoginFailed(last)
    /\ last.status = 401
    /\ isAdmin(last.req.sess)
    /\ last.req.cookie \in Authenticated(sessions, now)
    /\ sessions[last.req.cookie].username = "admin"

-----------------------------------------------------------------------------
(* An update and a delete of the same record.                               *)

\* C25: when an authenticated update and an authenticated delete of the same
\* existing id are processed concurrently, the delete returns 200, the update
\* returns 200 only if its statement ran while the record was still there
\* (before the delete) and 404 otherwise, leaving the table as it is, and the
\* record is absent afterwards: no deleted id is ever in the table again.
C25_UpdateNeverRecreates ==
    [][/\ (CalledBack(last', "delete") /\ ~last'.fault
                /\ boundId(last'.req) \in DOMAIN registrations)
            => /\ last'.status = 200
               /\ boundId(last'.req) \notin DOMAIN registrations'
       /\ (CalledBack(last', "update") /\ ~last'.fault)
            => /\ last'.status = 200 <=> boundId(last'.req) \in DOMAIN registrations
               /\ boundId(last'.req) \notin DOMAIN registrations
                     => /\ last'.status = 404
                        /\ boundId(last'.req) \in hist.deleted
                        /\ registrations' = registrations
       /\ hist'.deleted \cap DOMAIN registrations' = {}]_vars

\* an update of record 1, sent while the record was there, is answered 404
\* after the delete of record 1 committed, and the record is not in the table
C25_Witness ==
    /\ CalledBack(last, "update")
    /\ ~last.fault
    /\ last.status = 404
    /\ boundId(last.req) = 1
    /\ 1 \in hist.deleted
    /\ 1 \notin DOMAIN registrations

====
